---- MODULE Spec2Model ----
(***************************************************************************)
(* Model of monthly_schedule.py: ResidentSchedulingSolver.                 *)
(*                                                                         *)
(* The solver object is configured (constructor, add_holiday,              *)
(* add_resident_info), compiled into a CP-SAT model (setup_model), solved  *)
(* (solve) and reported (print_schedule).  The compiled model is kept as   *)
(* data: the boolean variables that were created, the constraints that     *)
(* were added and the list of penalty variables that is minimised.  The    *)
(* external engine is modelled by its contract: solve returns any          *)
(* assignment of the assignment variables that satisfies every constraint, *)
(* completed by the cheapest values of the penalty variables, or           *)
(* INFEASIBLE when there is none.                                          *)
(***************************************************************************)
EXTENDS Integers, Sequences, FiniteSets, TLC

\* ------------------------------------------------------------------ bounds
MaxDays == 13
MaxResidents == 2
MaxHolidays == 2

\* ------------------------------------------------------- program constants
MONDAY == 0
TUESDAY == 1
WEDNESDAY == 2
THURSDAY == 3
FRIDAY == 4
SATURDAY == 5
SUNDAY == 6
LenWeekday == 7
trauma_shift_multiplier == 2
half_day_call_penalty == 2
max_shifts_per_week == 1
extra_friday_penalty_amount == 5
HalfDayPenaltyMax == 16
FridayPenaltyMax == 16
WeeklyPenaltyMax == 7

\* --------------------------------------------------------- generic helpers
Range(s) == {s[i] : i \in DOMAIN s}

Max(S) == CHOOSE x \in S : \A y \in S : y <= x

Min(S) == CHOOSE x \in S : \A y \in S : x <= y

\* the ascending sequence of the integers of a finite set
RECURSIVE SortedSeq(_)
SortedSeq(S) == IF S = {} THEN <<>> ELSE <<Min(S)>> \o SortedSeq(S \ {Min(S)})

\* list.sort() of a list without repeated entries
SortList(s) == SortedSeq(Range(s))

\* list.remove(x): drops the first occurrence of x (x is known to be in s)
RemoveFirst(s, x) ==
    LET k == Min({i \in DOMAIN s : s[i] = x})
    IN  SubSeq(s, 1, k - 1) \o SubSeq(s, k + 1, Len(s))

\* the body of add_resident_info's loop: remove every no-fill day once from
\* the vacation list, ignoring the days that are not in it
RECURSIVE StripNofill(_, _)
StripNofill(vac, nf) ==
    IF nf = <<>> THEN vac
    ELSE StripNofill(IF Head(nf) \in Range(vac) THEN RemoveFirst(vac, Head(nf)) ELSE vac,
                     Tail(nf))

Abs(x) == IF x >= 0 THEN x ELSE -x

\* int(n / d) of Python for the quotient n / d: truncation towards zero
Trunc(n, d) ==
    IF (n >= 0) = (d > 0) THEN Abs(n) \div Abs(d) ELSE -(Abs(n) \div Abs(d))

\* ------------------------------------------------------------------ inputs
Names == <<"A", "B", "C">>

\* horizon lengths: a single day, two days, a horizon that ends on a Friday,
\* one whole week, and the longest horizon explored
Horizons == {1, 2, 5, 7, MaxDays}

Classifications == {"junior", "senior"}

ShiftLists == {<<"night">>, <<"day", "night">>}

NofillChoices == {<<>>, <<5>>}

HolidayChoices == {WEDNESDAY, SATURDAY}

\* the residents a script may register: on_vacation_days, on_trauma,
\* on_emergency, days_override (0 for None) and claimed_days
ResidentInput(v, t, e, o, c) ==
    [on_vacation_days |-> v, on_trauma |-> t, on_emergency |-> e,
     days_override |-> o, claimed_days |-> c]

ResidentInputs ==
    {ResidentInput(<<>>, FALSE, FALSE, 0, <<>>),
     ResidentInput(<<0>>, FALSE, FALSE, 0, <<>>),
     ResidentInput(<<>>, TRUE, FALSE, 0, <<>>),
     ResidentInput(<<>>, TRUE, TRUE, 0, <<>>),
     ResidentInput(<<1, 5>>, FALSE, FALSE, 0, <<>>),
     ResidentInput(<<>>, TRUE, FALSE, 0, <<<<1, "night">>>>),
     ResidentInput(<<1>>, FALSE, FALSE, 0, <<<<1, "night">>>>),
     ResidentInput(<<>>, TRUE, FALSE, 0, <<<<-1, "day">>>>)}

\* ------------------------------------------------------------------- state
VARIABLES
    classification,         \* self.classification
    num_days,               \* self.num_days (self.days is 0..num_days-1)
    shifts,                 \* self.shifts
    nofill,                 \* self.nofill
    working_days,           \* self.working_days
    weekends_and_holidays,  \* self.weekends_and_holidays
    residents_info,         \* self.residents_info (<<>> while the attribute is unset)
    call_ratio,             \* self.call_ratio as <<numerator, denominator>>
    schedules,              \* names whose variable table self.schedules[name] exists
    model,                  \* self.model: variables, constraints, objective
    penalties,              \* self.penalties
    status,                 \* self.status
    solution,               \* the solver's assignment: the set of variables that are true
    report,                 \* what print_schedule has written
    pc,                     \* position of the driving script
    err                     \* exception that ended the script

vars == <<classification, num_days, shifts, nofill, working_days, weekends_and_holidays,
          residents_info, call_ratio, schedules, model, penalties, status, solution,
          report, pc, err>>

cfgVars == <<classification, num_days, shifts, nofill>>

days == 0..(num_days - 1)

shifts_per_day == Len(shifts)

days_to_fill == num_days - Len(nofill)

\* build_weekday_list(weekday): range(weekday, num_days, 7)
build_weekday_list(weekday, n) ==
    SortedSeq({d \in 0..(n - 1) : d >= weekday /\ (d - weekday) % LenWeekday = 0})

Weekdays(n) ==
    build_weekday_list(MONDAY, n) \o build_weekday_list(TUESDAY, n)
    \o build_weekday_list(WEDNESDAY, n) \o build_weekday_list(THURSDAY, n)
    \o build_weekday_list(FRIDAY, n)

Weekends(n) == build_weekday_list(SATURDAY, n) \o build_weekday_list(SUNDAY, n)

NoRatio == <<0, 0>>

EmptyModel == [bools |-> <<>>, cons |-> {}, minimize |-> <<>>]

Init ==
    /\ classification \in Classifications
    /\ num_days \in Horizons
    /\ shifts \in ShiftLists
    /\ nofill \in NofillChoices
    /\ working_days = Weekdays(num_days)
    /\ weekends_and_holidays = Weekends(num_days)
    /\ residents_info = <<>>
    /\ call_ratio = NoRatio
    /\ schedules = <<>>
    /\ model = EmptyModel
    /\ penalties = <<>>
    /\ status = "NONE"
    /\ solution = {}
    /\ report = "none"
    /\ pc = "config"
    /\ err = "none"

\* --------------------------------------------------------------- add_holiday
NumHolidays == Len(weekends_and_holidays) - Len(Weekends(num_days))

\* add_holiday with the append done before the remove
AddHoliday_AppendFirst(day) ==
    /\ pc = "config"
    /\ NumHolidays < MaxHolidays
    /\ weekends_and_holidays' = SortList(Append(weekends_and_holidays, day))
    /\ IF day \in Range(working_days)
       THEN /\ working_days' = SortList(RemoveFirst(working_days, day))
            /\ UNCHANGED <<pc, err>>
       ELSE /\ pc' = "error"
            /\ err' = "ValueError"
            /\ UNCHANGED working_days
    /\ UNCHANGED <<cfgVars, residents_info, call_ratio, schedules, model, penalties,
                   status, solution, report>>

AddHoliday(day) ==
    /\ pc = "config"
    /\ NumHolidays < MaxHolidays
    /\ IF day \in Range(working_days)
       THEN /\ working_days' = SortList(RemoveFirst(working_days, day))
            /\ weekends_and_holidays' = SortList(Append(weekends_and_holidays, day))
            /\ UNCHANGED <<pc, err>>
       ELSE \* list.remove raises ValueError before anything is changed
            /\ pc' = "error"
            /\ err' = "ValueError"
            /\ UNCHANGED <<working_days, weekends_and_holidays>>
    /\ UNCHANGED <<cfgVars, residents_info, call_ratio, schedules, model, penalties,
                   status, solution, report>>

\* --------------------------------------------------------- add_resident_info
\* sum of (1 + on_trauma * (multiplier - 1)) * (days_to_fill - len(vacation))
resident_days_available(info) ==
    LET RECURSIVE Sum(_)
        Sum(i) == IF i = 0 THEN 0
                  ELSE Sum(i - 1)
                       + (1 + (IF info[i].on_trauma THEN 1 ELSE 0) * (trauma_shift_multiplier - 1))
                         * (days_to_fill - Len(info[i].on_vacation_days))
    IN  Sum(Len(info))

AddResidentInfo(on_vacation_days, on_trauma, on_emergency, days_override, claimed_days) ==
    /\ pc = "config"
    /\ Len(residents_info) < MaxResidents
    /\ LET resident == [name |-> Names[Len(residents_info) + 1],
                        on_vacation_days |-> StripNofill(on_vacation_days, nofill),
                        on_trauma |-> on_trauma,
                        on_emergency |-> on_emergency,
                        days_override |-> days_override,
                        claimed_days |-> claimed_days]
           info == Append(residents_info, resident)
           available == resident_days_available(info)
       IN  /\ residents_info' = info
           /\ IF available = 0
              THEN \* calculate_call_ratio divides by zero
                   /\ pc' = "error"
                   /\ err' = "ZeroDivisionError"
                   /\ UNCHANGED call_ratio
              ELSE /\ call_ratio' = <<days_to_fill, available>>
                   /\ UNCHANGED <<pc, err>>
    /\ UNCHANGED <<cfgVars, working_days, weekends_and_holidays, schedules, model,
                   penalties, status, solution, report>>

\* ------------------------------------------------------- the CP-SAT model
\* A boolean variable is named <<kind, resident, i, j>>; the assignment
\* variable schedules[name][day][shifts[k-1]] is <<"call", name, day, k>>.
NoVar == <<"none", "", 0, 0>>

CallVar(name, day, k) == <<"call", name, day, k>>

LastShift == Len(shifts)

\* A constraint over the number of true variables of vars (a list, so that a
\* variable listed twice counts twice): kind is the comparison with rhs.  lit
\* with polarity pol is the OnlyEnforceIf literal (NoVar: always enforced).
Lin(kind, vs, rhs) ==
    [kind |-> kind, vars |-> vs, rhs |-> rhs, lit |-> NoVar, pol |-> TRUE,
     ivar |-> NoVar, ub |-> 0]

OnlyEnforceIf(c, l, pol) == [c EXCEPT !.lit = l, !.pol = pol]

\* model.Add(x == value) for one boolean variable
Fix(v, value) == Lin("eq", <<v>>, value)

AddAtMostOne(vs) == Lin("le", vs, 1)

AddExactlyOne(vs) == Lin("eq", vs, 1)

AddImplication(a, b) == OnlyEnforceIf(Lin("ge", <<b>>, 1), a, TRUE)

\* AddBoolAnd(vs).OnlyEnforceIf(l)
AddBoolAndIf(vs, l) == OnlyEnforceIf(Lin("eq", vs, Len(vs)), l, TRUE)

\* AddBoolXOr(vs + [l.Not()]): an odd number of the literals is true
AddBoolXOrNot(vs, l) ==
    [kind |-> "xor", vars |-> vs, rhs |-> 0, lit |-> l, pol |-> FALSE,
     ivar |-> NoVar, ub |-> 0]

\* model.Add(ivar >= rhs).OnlyEnforceIf(l) for an integer variable of domain 0..ub
IntGeIf(ivar, ub, rhs, l) ==
    [kind |-> "intge", vars |-> <<>>, rhs |-> rhs, lit |-> l, pol |-> TRUE,
     ivar |-> ivar, ub |-> ub]

\* what one build function adds: constraints, new boolean variables, new
\* entries of self.penalties, and the exception that ended it ("none")
Out(cons, bools, pens, e) == [cons |-> cons, bools |-> bools, pens |-> pens, err |-> e]

NoOut == Out({}, <<>>, <<>>, "none")

\* the sequence f(lo), f(lo+1), ..., f(hi) flattened, for list-valued f
RECURSIVE Concat(_, _, _)
Concat(f(_), lo, hi) == IF lo > hi THEN <<>> ELSE f(lo) \o Concat(f, lo + 1, hi)

\* schedules[name][day]: a Python list index (negative indices count from the end)
ListIndexOK(day) == day >= -num_days /\ day < num_days

ListIndex(day) == IF day < 0 THEN day + num_days ELSE day

\* schedules[name][day][shift]: the dict key must be one of the labels
ShiftKeyOK(label) == label \in Range(shifts)

ShiftKey(label) == Max({k \in DOMAIN shifts : shifts[k] = label})

\* --------------------------------------------------------- build functions
emergency_wednesday_halfday(resident) ==
    IF resident.on_emergency
    THEN Out({Fix(CallVar(resident.name, day, k), 0) :
                 day \in {d \in Range(working_days) : d % LenWeekday = WEDNESDAY},
                 k \in DOMAIN shifts},
             <<>>, <<>>, "none")
    ELSE NoOut

\* cant_book_vacation_days whose membership test never succeeds
cant_book_vacation_days_never(resident) == NoOut

cant_book_vacation_days(resident) ==
    Out({Fix(CallVar(resident.name, day, k), 0) :
            day \in {d \in days : d \in Range(resident.on_vacation_days)},
            k \in DOMAIN shifts},
        <<>>, <<>>, "none")

cant_book_nofill_days(resident) ==
    Out({Fix(CallVar(resident.name, day, k), 0) :
            day \in Range(nofill), k \in DOMAIN shifts},
        <<>>, <<>>, "none")

\* trauma_day_call with the test of on_trauma inverted
trauma_day_call_inverted(resident) ==
    IF resident.on_trauma
    THEN Out({Fix(CallVar(resident.name, day, 1), 0) : day \in Range(working_days)},
             <<>>, <<>>, "none")
    ELSE NoOut

trauma_day_call(resident) ==
    IF ~resident.on_trauma
    THEN Out({Fix(CallVar(resident.name, day, 1), 0) : day \in Range(working_days)},
             <<>>, <<>>, "none")
    ELSE NoOut

\* post_call_days with range(self.num_days - 2): the last pair of days is missed
post_call_days_short(resident, ignore) ==
    Out({AddAtMostOne(<<CallVar(resident.name, day, LastShift),
                        CallVar(resident.name, day + 1, k)>>) :
            day \in {d \in 0..(num_days - 3) : d % 7 # ignore},
            k \in DOMAIN shifts},
        <<>>, <<>>, "none")

\* ignore is the weekday index that is skipped (-1 for None)
post_call_days(resident, ignore) ==
    Out({AddAtMostOne(<<CallVar(resident.name, day, LastShift),
                        CallVar(resident.name, day + 1, k)>>) :
            day \in {d \in 0..(num_days - 2) : d % 7 # ignore},
            k \in DOMAIN shifts},
        <<>>, <<>>, "none")

FullDayVar(name, day) == <<"full_day", name, day, 0>>

HalfDayPenalty(name, day) == <<"penalty_halfday", name, day, 0>>

prefer_full_day_call(resident) ==
    LET name == resident.name
    IN  Out({AddBoolXOrNot(<<CallVar(name, day, 1), CallVar(name, day, LastShift)>>,
                           FullDayVar(name, day)) : day \in days}
            \cup {IntGeIf(HalfDayPenalty(name, day), HalfDayPenaltyMax,
                          half_day_call_penalty, FullDayVar(name, day)) : day \in days},
            [i \in 1..num_days |-> FullDayVar(name, i - 1)],
            [i \in 1..num_days |-> HalfDayPenalty(name, i - 1)],
            "none")

\* the first of each pair of Fridays one week apart inside the horizon
FridayPairs ==
    SortedSeq({d \in days : d % 7 = FRIDAY /\ (d + LenWeekday) \in days})

FridayConflict(name, friday) == <<"Fridays", name, friday, friday + LenWeekday>>

FridayPenalty(name, friday) == <<"penalty_Fridays", name, friday, friday + LenWeekday>>

penalize_multiple_fridays(resident) ==
    LET name == resident.name
        fr == FridayPairs
    IN  Out({AddBoolAndIf(<<CallVar(name, f, LastShift),
                            CallVar(name, f + LenWeekday, LastShift)>>,
                          FridayConflict(name, f)) : f \in Range(fr)}
            \cup {IntGeIf(FridayPenalty(name, f), FridayPenaltyMax,
                          extra_friday_penalty_amount, FridayConflict(name, f)) :
                     f \in Range(fr)},
            [i \in 1..Len(fr) |-> FridayConflict(name, fr[i])],
            [i \in 1..Len(fr) |-> FridayPenalty(name, fr[i])],
            "none")

NumWeeks == num_days \div LenWeekday

\* the variables summed into weekly_calls of a week
WeeklyCalls(name, week) ==
    [i \in 1..(7 * Len(shifts)) |->
        CallVar(name, week * 7 + ((i - 1) \div Len(shifts)), ((i - 1) % Len(shifts)) + 1)]

ExceedsMax(name, week) == <<"exceeds_max", name, week, 0>>

WeeklyExceeds(name, week, i) == <<"Week_penalty_exceeds", name, week, i>>

WeeklyPenalty(name, week) == <<"Week_penalty", name, week, 0>>

\* the values of i in range(max_shifts_per_week + 1, 7)
ExceedLevels == (max_shifts_per_week + 1)..6

disperse_call(resident) ==
    LET name == resident.name
        Week(week) ==
            <<ExceedsMax(name, week)>>
            \o [j \in 1..Cardinality(ExceedLevels) |->
                   WeeklyExceeds(name, week, max_shifts_per_week + j)]
        Pens(week) ==
            [j \in 1..Cardinality(ExceedLevels) |-> WeeklyPenalty(name, week)]
    IN  Out({OnlyEnforceIf(Lin("le", WeeklyCalls(name, week), max_shifts_per_week),
                           ExceedsMax(name, week), FALSE) : week \in 0..(NumWeeks - 1)}
            \cup {OnlyEnforceIf(Lin("gt", WeeklyCalls(name, week), max_shifts_per_week),
                                ExceedsMax(name, week), TRUE) : week \in 0..(NumWeeks - 1)}
            \cup {OnlyEnforceIf(Lin("ge", WeeklyCalls(name, week), i),
                                WeeklyExceeds(name, week, i), TRUE) :
                     week \in 0..(NumWeeks - 1), i \in ExceedLevels}
            \cup {IntGeIf(WeeklyPenalty(name, week), WeeklyPenaltyMax, 2 * i,
                          WeeklyExceeds(name, week, i)) :
                     week \in 0..(NumWeeks - 1), i \in ExceedLevels},
            Concat(Week, 0, NumWeeks - 1),
            Concat(Pens, 0, NumWeeks - 1),
            "none")

LowerBoundReached(descriptor, name) == <<descriptor, name, 0, 0>>

UpperBoundReached(descriptor, name) == <<descriptor, name, 1, 0>>

\* strictly_bounded without the two constraints enforced when a flag is false
strictly_bounded_flags_free(resident, calculation, lower_bound, upper_bound, descriptor) ==
    LET lo == LowerBoundReached(descriptor, resident.name)
        up == UpperBoundReached(descriptor, resident.name)
    IN  Out({Lin("ge", calculation, 0),
             Lin("le", calculation, num_days),
             Lin("ge", calculation, lower_bound),
             Lin("le", calculation, upper_bound),
             OnlyEnforceIf(Lin("eq", calculation, lower_bound), lo, TRUE),
             OnlyEnforceIf(Lin("eq", calculation, upper_bound), up, TRUE)},
            <<lo, up>>, <<lo, up>>, "none")

\* shifts_taken is an integer variable of domain 0..len(days) equal to the
\* number of true variables of calculation
strictly_bounded(resident, calculation, lower_bound, upper_bound, descriptor) ==
    LET lo == LowerBoundReached(descriptor, resident.name)
        up == UpperBoundReached(descriptor, resident.name)
    IN  Out({Lin("ge", calculation, 0),
             Lin("le", calculation, num_days),
             Lin("ge", calculation, lower_bound),
             Lin("le", calculation, upper_bound),
             OnlyEnforceIf(Lin("eq", calculation, lower_bound), lo, TRUE),
             OnlyEnforceIf(Lin("eq", calculation, upper_bound), up, TRUE),
             OnlyEnforceIf(Lin("ne", calculation, lower_bound), lo, FALSE),
             OnlyEnforceIf(Lin("ne", calculation, upper_bound), up, FALSE)},
            <<lo, up>>, <<lo, up>>, "none")

\* several build results in the order they were produced; nothing after the
\* first exception is kept
RECURSIVE Chain(_)
Chain(outs) ==
    IF outs = <<>> THEN NoOut
    ELSE IF Head(outs).err # "none" THEN Head(outs)
    ELSE LET rest == Chain(Tail(outs))
         IN  Out(Head(outs).cons \cup rest.cons, Head(outs).bools \o rest.bools,
                 Head(outs).pens \o rest.pens, rest.err)

\* expected_night_shifts as <<numerator, denominator>>
ExpectedNightShifts(resident) ==
    IF resident.days_override # 0
    THEN <<resident.days_override, 1>>
    ELSE <<(num_days - Len(resident.on_vacation_days)) * call_ratio[1]
               * (IF resident.on_trauma THEN trauma_shift_multiplier ELSE 1),
           call_ratio[2]>>

set_shift_expectations(resident) ==
    LET e == ExpectedNightShifts(resident)
        name == resident.name
        we == weekends_and_holidays
    IN  Chain(<<
          strictly_bounded(resident,
              [i \in 1..num_days |-> CallVar(name, i - 1, LastShift)],
              Trunc(e[1] - e[2], e[2]), Trunc(e[1] + e[2], e[2]), "total_shifts"),
          strictly_bounded(resident,
              [i \in 1..Len(we) |-> CallVar(name, we[i], 1)],
              Trunc(2 * e[1] - 7 * e[2], 7 * e[2]), Trunc(2 * e[1] + 7 * e[2], 7 * e[2]),
              "weekend_shift")>>)

\* multiday_implication with the gap already taken: friday_implies_sunday is
\* gap 2, friday_implies_saturday is gap 1.  schedules[name][day + gap] raises
\* IndexError when day + gap is past the last day.
friday_implies(resident, gap) ==
    LET fridays == {d \in days : d % 7 = FRIDAY}
        bad == {d \in fridays : ~ListIndexOK(d + gap)}
        done == IF bad = {} THEN fridays ELSE {d \in fridays : d < Min(bad)}
    IN  Out({AddImplication(CallVar(resident.name, day, LastShift),
                            CallVar(resident.name, day + gap, k)) :
                day \in done, k \in DOMAIN shifts},
            <<>>, <<>>, IF bad = {} THEN "none" ELSE "IndexError")

friday_implies_sunday(resident) == friday_implies(resident, 2)

friday_implies_saturday(resident) == friday_implies(resident, 1)

ClaimOK(claim) == ListIndexOK(claim[1]) /\ ShiftKeyOK(claim[2])

\* assign_claimed_days swallowing its claims: nothing is added to the model
assign_claimed_days_dropped(resident) ==
    Out({}, <<>>, <<>>,
        IF \A i \in DOMAIN resident.claimed_days : ClaimOK(resident.claimed_days[i])
        THEN "none" ELSE "IndexError")

assign_claimed_days(resident) ==
    LET cl == resident.claimed_days
        bad == {i \in DOMAIN cl : ~ClaimOK(cl[i])}
        done == IF bad = {} THEN DOMAIN cl ELSE {i \in DOMAIN cl : i < Min(bad)}
    IN  Out({Fix(CallVar(resident.name, ListIndex(cl[i][1]), ShiftKey(cl[i][2])), 1) :
                i \in done},
            <<>>, <<>>,
            IF bad = {} THEN "none"
            ELSE IF ~ListIndexOK(cl[Min(bad)][1]) THEN "IndexError" ELSE "KeyError")

balance_trauma_call(resident) ==
    LET num_trauma_days == Len(working_days)
        trauma_days_available ==
            Cardinality({<<i, d>> \in (DOMAIN residents_info) \X Range(working_days) :
                            /\ residents_info[i].on_trauma
                            /\ d \notin Range(residents_info[i].on_vacation_days)})
        num_away_days == Cardinality({d \in days : d \in Range(resident.on_vacation_days)})
        \* expected_day_shifts = (num_trauma_days - num_away_days) * trauma_days_ratio
        n == (num_trauma_days - num_away_days) * num_trauma_days
        wd == working_days
    IN  IF trauma_days_available = 0 THEN Out({}, <<>>, <<>>, "ZeroDivisionError")
        ELSE IF \A d \in Range(working_days) : d \in Range(resident.on_vacation_days)
        THEN \* expected_day_shifts was never assigned
             Out({}, <<>>, <<>>, "UnboundLocalError")
        ELSE strictly_bounded(resident,
                 [i \in 1..Len(wd) |-> CallVar(resident.name, wd[i], 1)],
                 Trunc(n - trauma_days_available, trauma_days_available),
                 Trunc(n + trauma_days_available, trauma_days_available),
                 "trauma_shifts")

\* ---------------------------------------------------------------- setup_model
junior_build_functions(resident) ==
    <<emergency_wednesday_halfday(resident),
      cant_book_vacation_days(resident),
      trauma_day_call(resident),
      post_call_days(resident, -1),
      prefer_full_day_call(resident),
      penalize_multiple_fridays(resident),
      disperse_call(resident),
      set_shift_expectations(resident),
      friday_implies_sunday(resident),
      assign_claimed_days(resident)>>

senior_build_functions(resident) ==
    <<cant_book_vacation_days(resident),
      post_call_days(resident, FRIDAY),
      penalize_multiple_fridays(resident),
      disperse_call(resident),
      set_shift_expectations(resident),
      friday_implies_saturday(resident),
      assign_claimed_days(resident)>>

\* the table self.schedules[name]: one variable per day and shift
NewSchedule(name) ==
    [i \in 1..(num_days * Len(shifts)) |->
        CallVar(name, (i - 1) \div Len(shifts), ((i - 1) % Len(shifts)) + 1)]

add_resident_model(resident) ==
    Chain(<<Out({}, NewSchedule(resident.name), <<>>, "none")>>
          \o (IF classification = "junior" THEN junior_build_functions(resident)
              ELSE senior_build_functions(resident))
          \o (IF resident.on_trauma /\ classification = "junior"
              THEN <<balance_trauma_call(resident)>> ELSE <<>>))

\* the coverage rule written with AddAtMostOne
Coverage_AtMostOne ==
    {AddAtMostOne([i \in 1..Len(residents_info) |->
                       CallVar(residents_info[i].name, day, k)]) :
        day \in {d \in days : d \notin Range(nofill)}, k \in DOMAIN shifts}

\* "There must be a resident on shift"
Coverage ==
    {AddExactlyOne([i \in 1..Len(residents_info) |->
                        CallVar(residents_info[i].name, day, k)]) :
        day \in {d \in days : d \notin Range(nofill)}, k \in DOMAIN shifts}

SetupModel ==
    /\ pc = "config"
    /\ IF residents_info = <<>>
       THEN \* self.residents_info does not exist yet
            /\ pc' = "error"
            /\ err' = "AttributeError"
            /\ penalties' = <<>>
            /\ UNCHANGED <<schedules, model>>
       ELSE LET PerResident(i) == <<add_resident_model(residents_info[i])>>
                built == Chain(Concat(PerResident, 1, Len(residents_info)))
                bad == {i \in DOMAIN residents_info :
                           add_resident_model(residents_info[i]).err # "none"}
                reached == IF bad = {} THEN Len(residents_info) ELSE Min(bad)
            IN  /\ schedules' = [i \in 1..reached |-> residents_info[i].name]
                /\ penalties' = built.pens
                /\ IF built.err = "none"
                   THEN /\ model' = [bools |-> built.bools,
                                     cons |-> built.cons \cup Coverage,
                                     minimize |-> built.pens]
                        /\ pc' = "compiled"
                        /\ err' = "none"
                   ELSE /\ model' = [bools |-> built.bools, cons |-> built.cons,
                                     minimize |-> <<>>]
                        /\ pc' = "error"
                        /\ err' = built.err
    /\ UNCHANGED <<cfgVars, working_days, weekends_and_holidays, residents_info,
                   call_ratio, status, solution, report>>

\* ----------------------------------------------------------------------- solve
\* number of entries of the list vs that are true in the assignment T
Count(vs, T) == Cardinality({i \in DOMAIN vs : vs[i] \in T})

Holds(c, T) ==
    LET n == Count(c.vars, T)
        enforced == c.lit = NoVar \/ ((c.lit \in T) = c.pol)
    IN  CASE c.kind = "eq" -> enforced => n = c.rhs
          [] c.kind = "ne" -> enforced => n # c.rhs
          [] c.kind = "ge" -> enforced => n >= c.rhs
          [] c.kind = "le" -> enforced => n <= c.rhs
          [] c.kind = "gt" -> enforced => n > c.rhs
          [] c.kind = "xor" -> (n + (IF c.lit \in T THEN 0 ELSE 1)) % 2 = 1
          [] c.kind = "intge" -> (c.lit \in T) => c.rhs <= c.ub

VarsOf(c) == Range(c.vars) \cup (IF c.lit = NoVar THEN {} ELSE {c.lit})

\* the order in which the search decides the variables: the assignment
\* variables day by day, then the other booleans in creation order
SearchOrder(m) ==
    LET call == SelectSeq(m.bools, LAMBDA v : v[1] = "call")
        other == SelectSeq(m.bools, LAMBDA v : v[1] # "call")
        Day(d) == SelectSeq(call, LAMBDA v : v[3] = d)
    IN  Concat(Day, 0, num_days - 1) \o other

\* the partial assignments that extend one of partial by a value for the
\* variable v and satisfy the constraints cs, whose last variable is v.
\* An assignment variable takes every value the constraints allow.  Any other
\* boolean occurs only in constraints with assignment variables and, when
\* true, only raises penalty variables, so the minimiser leaves it false
\* whenever the constraints allow false.
Extend(v, cs, partial) ==
    IF v[1] = "call"
    THEN {{x : x \in T} :
             T \in {X \in partial \cup {p \cup {v} : p \in partial} :
                       \A c \in cs : Holds(c, X)}}
    ELSE {IF \A c \in cs : Holds(c, p) THEN p ELSE {x : x \in p \cup {v}} :
             p \in {q \in partial : \/ \A c \in cs : Holds(c, q)
                                    \/ \A c \in cs : Holds(c, q \cup {v})}}

RECURSIVE Search(_, _, _, _)
Search(order, bucket, i, partial) ==
    IF i > Len(order) THEN partial
    ELSE UNION {Search(order, bucket, i + 1, next) :
                   next \in {Extend(order[i], bucket[i], partial)}}

\* the position of the last variable of each constraint in the search order
\* (0 for a constraint without variables)
LastPos(m, order) ==
    LET pos == [v \in Range(order) |-> CHOOSE i \in DOMAIN order : order[i] = v]
    IN  [c \in m.cons |-> IF VarsOf(c) = {} THEN 0 ELSE Max({pos[v] : v \in VarsOf(c)})]

\* every assignment (as the set of true variables) that satisfies the model
Solutions(m) ==
    UNION {UNION {UNION {IF \A c \in m.cons : last[c] = 0 => Holds(c, {})
                         THEN Search(order, bucket, 1, {{}})
                         ELSE {} :
                         bucket \in {[i \in DOMAIN order |-> {c \in m.cons : last[c] = i}]}} :
                  last \in {LastPos(m, order)}} :
           order \in {SearchOrder(m)}}

IsIntVar(v) == v[1] \in {"penalty_halfday", "penalty_Fridays", "Week_penalty"}

\* the value of an integer penalty variable: the least value its constraints
\* allow under the assignment T, which is where Minimize leaves it
IntValue(m, v, T) ==
    Max({0} \cup {c.rhs : c \in {x \in m.cons : x.kind = "intge" /\ x.ivar = v
                                                  /\ x.lit \in T}})

RECURSIVE SumValues(_, _, _)
SumValues(m, pens, T) ==
    IF pens = <<>> THEN 0
    ELSE (IF IsIntVar(Head(pens)) THEN IntValue(m, Head(pens), T)
          ELSE IF Head(pens) \in T THEN 1 ELSE 0)
         + SumValues(m, Tail(pens), T)

ObjectiveValue(m, T) == SumValues(m, m.minimize, T)

Solve ==
    /\ pc = "compiled"
    /\ pc' = "solved"
    /\ \E sols \in {Solutions(model)} :
          IF sols = {}
          THEN /\ status' = "INFEASIBLE"
               /\ solution' = {}
          ELSE \E best \in {Min({ObjectiveValue(model, T) : T \in sols})} :
                  \E T \in sols :
                     /\ solution' = T
                     /\ status' = IF ObjectiveValue(model, T) = best
                                  THEN "OPTIMAL" ELSE "FEASIBLE"
    /\ UNCHANGED <<cfgVars, working_days, weekends_and_holidays, residents_info,
                   call_ratio, schedules, model, penalties, report, err>>

\* ---------------------------------------------------------------- print_schedule
PrintSchedule ==
    /\ pc = "solved"
    /\ pc' = "printed"
    /\ report' = IF status = "OPTIMAL" \/ status = "FEASIBLE" THEN "roster" ELSE "blank"
    /\ UNCHANGED <<cfgVars, working_days, weekends_and_holidays, residents_info,
                   call_ratio, schedules, model, penalties, status, solution, err>>

\* ------------------------------------------------------------------------ spec
Next ==
    \/ \E day \in HolidayChoices : AddHoliday(day)
    \/ \E r \in ResidentInputs :
          AddResidentInfo(r.on_vacation_days, r.on_trauma, r.on_emergency,
                          r.days_override, r.claimed_days)
    \/ SetupModel
    \/ Solve
    \/ PrintSchedule

Spec == Init /\ [][Next]_vars

\* ---------------------------------------------------------------- properties
\* solve has returned an assignment (status OPTIMAL or FEASIBLE)
Solved == pc \in {"solved", "printed"} /\ status \in {"OPTIMAL", "FEASIBLE"}

\* the solved value of schedules[name][day][shifts[k-1]]
Assigned(name, day, k) == CallVar(name, day, k) \in solution

Residents == {residents_info[i] : i \in DOMAIN residents_info}

FillDays == {d \in days : d \notin Range(nofill)}

\* the number of shifts a resident holds in the 7-day window of a week
CallsInWeek(name, week) == Count(WeeklyCalls(name, week), solution)

\* C1 (coverage): in every solved schedule, every shift of every day that is
\* not a no-fill day is held by exactly one of the registered residents.
C1_Coverage ==
    Solved =>
        \A day \in FillDays, k \in DOMAIN shifts :
            Cardinality({i \in DOMAIN residents_info :
                            Assigned(residents_info[i].name, day, k)}) = 1

C1_Witness ==
    /\ Solved
    /\ Len(residents_info) = 2
    /\ nofill # <<>>
    /\ {residents_info[i].name : i \in DOMAIN residents_info}
         = {v[2] : v \in {x \in solution : x[1] = "call"}}

\* C2 (no-fill exclusion): in every solved schedule nobody holds a shift on a
\* no-fill day.
C2_NofillExcluded ==
    Solved =>
        \A r \in Residents, day \in Range(nofill) \cap days, k \in DOMAIN shifts :
            ~Assigned(r.name, day, k)

\* C3 (vacation exclusion): in every solved schedule no resident holds a
\* shift on one of the vacation days recorded for that resident.
C3_VacationExcluded ==
    Solved =>
        \A r \in Residents :
            \A day \in Range(r.on_vacation_days) \cap days, k \in DOMAIN shifts :
                ~Assigned(r.name, day, k)

C3_Witness ==
    /\ Solved
    /\ \E r \in Residents, o \in Residents, day \in days :
          /\ day \in Range(r.on_vacation_days)
          /\ o.name # r.name
          /\ Assigned(o.name, day, LastShift)

\* C4 (claim invariant): in every solved schedule every claimed (day, shift)
\* pair is held by the resident who claimed it, and a model compiled with a
\* claim on the resident's own vacation day has no solution.
C4_ClaimsHeld ==
    /\ Solved =>
          \A r \in Residents : \A i \in DOMAIN r.claimed_days :
              Assigned(r.name, ListIndex(r.claimed_days[i][1]),
                       ShiftKey(r.claimed_days[i][2]))
    /\ (/\ pc \in {"solved", "printed"}
        /\ \E r \in Residents : \E i \in DOMAIN r.claimed_days :
              ListIndex(r.claimed_days[i][1]) \in Range(r.on_vacation_days))
       => status = "INFEASIBLE"

C4_Witness ==
    /\ Solved
    /\ Len(residents_info) = 2
    /\ \E r \in Residents : r.claimed_days # <<>>

\* the weekday after which post_call_days allows call on the next day
IgnoredWeekday == IF classification = "senior" THEN FRIDAY ELSE -1

\* C5 (post-call restriction): in every solved schedule no resident holds the
\* last shift of a day D and a shift of day D+1, unless D falls on the
\* ignored weekday (Friday for the senior rule set, none for the junior one).
C5_PostCall ==
    Solved =>
        \A r \in Residents, day \in 0..(num_days - 2) :
            day % 7 # IgnoredWeekday =>
                ~(/\ Assigned(r.name, day, LastShift)
                  /\ \E k \in DOMAIN shifts : Assigned(r.name, day + 1, k))

C5_Witness ==
    /\ Solved
    /\ classification = "senior"
    /\ \E r \in Residents, day \in 0..(num_days - 2) :
          /\ Assigned(r.name, day, LastShift)
          /\ Assigned(r.name, day + 1, LastShift)

\* the day a Friday's last shift implies: Saturday (senior) or Sunday (junior)
ImpliedGap == IF classification = "senior" THEN 1 ELSE 2

\* C6 (Friday implication): a resident who holds the last shift of a Friday
\* holds every shift of the implied day when that day is inside the horizon,
\* and a Friday whose implied day is past the horizon does not stop
\* setup_model: it ends in IndexError only for a claimed day out of range.
C6_FridayImplication ==
    /\ Solved =>
          \A r \in Residents, day \in days :
              (/\ day % 7 = FRIDAY
               /\ day + ImpliedGap \in days
               /\ Assigned(r.name, day, LastShift))
              => \A k \in DOMAIN shifts : Assigned(r.name, day + ImpliedGap, k)
    /\ (pc = "error" /\ err = "IndexError") =>
          \E r \in Residents : \E i \in DOMAIN r.claimed_days :
              ~ListIndexOK(r.claimed_days[i][1])

\* C7 (day-call eligibility): under the junior rule set, in every solved
\* schedule the first shift of a working day is never held by a resident who
\* is not on_trauma.
C7_DayCallEligibility ==
    (Solved /\ classification = "junior") =>
        \A r \in Residents, day \in Range(working_days) :
            ~r.on_trauma => ~Assigned(r.name, day, 1)

C7_Witness ==
    /\ Solved
    /\ classification = "junior"
    /\ \E r \in Residents, t \in Residents, day \in Range(working_days) :
          /\ ~r.on_trauma
          /\ \E d \in days, k \in DOMAIN shifts : Assigned(r.name, d, k)
          /\ t.on_trauma
          /\ Assigned(t.name, day, 1)

\* C8 (half-day invariant): under the junior rule set, in every solved
\* schedule an on_emergency resident holds no shift on any Wednesday of the
\* horizon, holiday or not.
C8_WednesdayHalfDay ==
    (Solved /\ classification = "junior") =>
        \A r \in Residents, day \in days, k \in DOMAIN shifts :
            (r.on_emergency /\ day % 7 = WEDNESDAY) => ~Assigned(r.name, day, k)

\* C9 (weekly dispersion penalty): in every solved schedule, a resident with
\* more than max_shifts_per_week shifts in a 7-day window carries a weekly
\* penalty of at least twice the overage.
C9_DispersionPenalty ==
    Solved =>
        \A r \in Residents, week \in 0..(NumWeeks - 1) :
            CallsInWeek(r.name, week) > max_shifts_per_week =>
                IntValue(model, WeeklyPenalty(r.name, week), solution)
                    >= 2 * (CallsInWeek(r.name, week) - max_shifts_per_week)

\* C10 (repeated-Friday penalty): in every solved schedule, a resident who
\* holds the last shift on two Fridays one week apart carries a penalty of at
\* least extra_friday_penalty for that pair.
C10_FridayPenalty ==
    Solved =>
        \A r \in Residents, f \in Range(FridayPairs) :
            (/\ Assigned(r.name, f, LastShift)
             /\ Assigned(r.name, f + LenWeekday, LastShift))
            => IntValue(model, FridayPenalty(r.name, f), solution)
                   >= extra_friday_penalty_amount

\* a resident whose recorded vacation days cover every day of the horizon and
\* who claims no day
FullyUnavailable(r) == days \subseteq Range(r.on_vacation_days) /\ r.claimed_days = <<>>

\* C11 (fully-unavailable resident): registering a fully-unavailable resident
\* never ends in ZeroDivisionError, whatever was registered before; when that
\* resident is the only one, the solve reports INFEASIBLE; in every schedule
\* found with other residents, the fully-unavailable resident holds no shift.
C11_FullyUnavailable ==
    \A r \in Residents :
        FullyUnavailable(r) =>
            /\ ~(pc = "error" /\ err = "ZeroDivisionError")
            /\ (pc \in {"solved", "printed"} /\ Len(residents_info) = 1)
                  => status = "INFEASIBLE"
            /\ Solved => \A day \in days, k \in DOMAIN shifts : ~Assigned(r.name, day, k)

\* C12 (non-feasible results are not reported): print_schedule never returns
\* normally after a solve whose status is neither OPTIMAL nor FEASIBLE, and a
\* roster is written only from a status that is OPTIMAL or FEASIBLE.
C12_ReportFailsLoudly ==
    /\ pc = "printed" => status \in {"OPTIMAL", "FEASIBLE"}
    /\ report = "roster" => status \in {"OPTIMAL", "FEASIBLE"}

\* a claimed pair whose day is inside the horizon and whose label is a shift
ValidClaim(claim) == claim[1] \in days /\ claim[2] \in Range(shifts)

InvalidClaimRegistered ==
    \E r \in Residents : \E i \in DOMAIN r.claimed_days : ~ValidClaim(r.claimed_days[i])

\* C13 (invalid claims are rejected up front): once a claimed pair with a day
\* outside 0..num_days-1 or an unknown shift label is registered, the script
\* never gets past configuration except into an error, and no variable or
\* constraint of the model is ever created.
C13_InvalidClaimRejected ==
    InvalidClaimRegistered =>
        /\ pc \in {"config", "error"}
        /\ model = EmptyModel
        /\ schedules = <<>>

BoundedDescriptors == {"total_shifts", "weekend_shift", "trauma_shifts"}

\* the applications of strictly_bounded in the compiled model: the expression
\* (a list of variables whose true entries are counted), the two bounds, and
\* the resident and descriptor that name the two flags
BoundedUses ==
    {[calculation |-> lo.vars, lower_bound |-> lo.rhs, upper_bound |-> up.rhs,
      name |-> lo.lit[2], descriptor |-> lo.lit[1]] :
        <<lo, up>> \in {<<a, b>> \in model.cons \X model.cons :
                          /\ a.kind = "eq" /\ b.kind = "eq"
                          /\ a.lit[1] \in BoundedDescriptors
                          /\ a.lit = LowerBoundReached(a.lit[1], a.lit[2])
                          /\ b.lit = UpperBoundReached(a.lit[1], a.lit[2])}}

Occurrences(list, x) == Cardinality({i \in DOMAIN list : list[i] = x})

\* C14 (strictly_bounded): in every solved schedule, for every application
\* of strictly_bounded the expression lies between its two bounds, the
\* lower-bound flag is true exactly when the expression equals the lower
\* bound, the upper-bound flag exactly when it equals the upper bound; the
\* penalty list holds each of the two flags once and nothing else under that
\* descriptor, so the two flags add to the objective 1 per bound touched.
C14_StrictlyBounded ==
    \A u \in BoundedUses :
        LET lo == LowerBoundReached(u.descriptor, u.name)
            up == UpperBoundReached(u.descriptor, u.name)
            E == Count(u.calculation, solution)
        IN  /\ Occurrences(penalties, lo) = 1
            /\ Occurrences(penalties, up) = 1
            /\ \A i \in DOMAIN penalties :
                   (penalties[i][1] = u.descriptor /\ penalties[i][2] = u.name)
                   => penalties[i] \in {lo, up}
            /\ Solved =>
                  /\ u.lower_bound <= E /\ E <= u.upper_bound
                  /\ (lo \in solution) <=> (E = u.lower_bound)
                  /\ (up \in solution) <=> (E = u.upper_bound)
                  /\ SumValues(model, <<lo, up>>, solution)
                       = (IF E = u.lower_bound THEN 1 ELSE 0)
                         + (IF E = u.upper_bound THEN 1 ELSE 0)

C14_Witness ==
    /\ Solved
    /\ \E u \in BoundedUses, v \in BoundedUses, w \in BoundedUses :
          /\ Count(u.calculation, solution) = u.lower_bound
          /\ LowerBoundReached(u.descriptor, u.name) \in solution
          /\ Count(v.calculation, solution) = v.upper_bound
          /\ UpperBoundReached(v.descriptor, v.name) \in solution
          /\ w.lower_bound < Count(w.calculation, solution)
          /\ Count(w.calculation, solution) < w.upper_bound

\* the days of the horizon that fall on Monday to Friday
MondayToFriday == {d \in days : d % LenWeekday <= FRIDAY}

NoDuplicates(list) == Cardinality(Range(list)) = Len(list)

CalendarPartition ==
    /\ NoDuplicates(working_days)
    /\ NoDuplicates(weekends_and_holidays)
    /\ Range(working_days) \cap Range(weekends_and_holidays) = {}
    /\ Range(working_days) \cup Range(weekends_and_holidays) = days
    /\ Range(working_days) \subseteq MondayToFriday

\* what a step may do to the two lists: nothing, or move one working day to
\* the weekend/holiday list without ending in an error
CalendarStep ==
    \/ UNCHANGED <<working_days, weekends_and_holidays>>
    \/ /\ pc' # "error"
       /\ \E day \in Range(working_days) :
             /\ Range(working_days') = Range(working_days) \ {day}
             /\ Range(weekends_and_holidays') = Range(weekends_and_holidays) \cup {day}

\* add_holiday for a day that is not a working day ends in an error
HolidayRejected ==
    \A day \in HolidayChoices :
        (AddHoliday(day) /\ day \notin Range(working_days))
        => (pc' = "error" /\ UNCHANGED <<working_days, weekends_and_holidays>>)

\* C15 (calendar partition): after construction the working days are exactly
\* the Monday-to-Friday days of the horizon; at all times the two lists are
\* duplicate-free, disjoint and together hold exactly the days 0..num_days-1,
\* with only Monday-to-Friday days among the working days; the only change a
\* step makes is the move of one working day to the weekend/holiday list, and
\* add_holiday for a day that is not a working day is rejected and leaves
\* both lists unchanged.
C15_CalendarPartition ==
    /\ Range(working_days) = MondayToFriday
    /\ []CalendarPartition
    /\ [][CalendarStep /\ HolidayRejected]_vars

C15_Witness ==
    /\ num_days % LenWeekday # 0
    /\ NumHolidays = 1
    /\ WEDNESDAY \in Range(weekends_and_holidays)
    /\ pc = "error"
    /\ err = "ValueError"

====
